---- MODULE Spec2Model ----
(***************************************************************************)
(* Model of the LinkedIn profile search scripts:                           *)
(*   scripts/linkedin_search.py  search_linkedin_profiles,                 *)
(*                               search_by_categories, main                *)
(*   temp/pylink.py              search_linkedin_profiles                  *)
(*                                                                         *)
(* One behaviour is one invocation of one entry point.  The only           *)
(* suspension point is the blocking HTTP GET: the call action runs the     *)
(* code up to requests.get, receive_response runs the rest with the        *)
(* outcome of the GET chosen by the environment.                           *)
(*                                                                         *)
(* Python strings are TLA+ strings (Len, \o and SubSeq act on them).       *)
(* Optional values are None or Some(v).  A JSON object is a record whose   *)
(* DOMAIN is the set of keys it has.                                       *)
(***************************************************************************)
EXTENDS Integers, Sequences, FiniteSets, TLC

VARIABLES
    pc,           \* "idle" | "http" (blocked in requests.get) | "done"
    entry,        \* the entry point that was invoked
    keywords,     \* list of keywords handed to search_linkedin_profiles
    num_results,  \* the num_results argument
    groups,       \* the five category arguments of search_by_categories
    query,        \* pylink.py: the query argument
    requests,     \* the outbound HTTP requests issued so far, in order
    response,     \* the outcome of the GET, once received
    stdout,       \* what was printed to standard output, in order
    stderr,       \* what was printed to the error stream, in order
    ret,          \* the value returned by the entry point
    raised,       \* the exception that escaped the entry point, "" if none
    exit_status   \* process exit status set by sys.exit

vars == <<pc, entry, keywords, num_results, groups, query, requests,
          response, stdout, stderr, ret, raised, exit_status>>

-----------------------------------------------------------------------------
(* Bounds of the model *)

MaxKeywords == 2
MaxItems == 2
MaxTitleLen == 5

(* Inputs *)

Words == {"python", "Acme"}
NumChoices == {3, 10, 11}
TitleChars == {"J", " ", "|", "-"}

-----------------------------------------------------------------------------
(* Python values *)

None == [is_none |-> TRUE]
Some(v) == [is_none |-> FALSE, value |-> v]

\* bool(x) of an Optional[List]: None and [] are falsy
Truthy(x) == (~x.is_none) /\ x.value # <<>>

Min(a, b) == IF a <= b THEN a ELSE b

RECURSIVE Join(_, _)
\* sep.join(parts)
Join(sep, parts) ==
    IF parts = <<>> THEN ""
    ELSE IF Len(parts) = 1 THEN parts[1]
    ELSE parts[1] \o sep \o Join(sep, Tail(parts))

RECURSIVE FindFrom(_, _, _)
\* the first position >= i at which sub occurs in s, 0 when there is none
FindFrom(s, sub, i) ==
    IF i + Len(sub) - 1 > Len(s) THEN 0
    ELSE IF SubSeq(s, i, i + Len(sub) - 1) = sub THEN i
    ELSE FindFrom(s, sub, i + 1)

\* s.find(sub) + 1: the first position at which sub occurs in s, 0 when none
Find(s, sub) == FindFrom(s, sub, 1)

\* sub in s
Contains(s, sub) == Find(s, sub) # 0

\* s.split(sep)[0]
SplitFirst(s, sep) ==
    IF Contains(s, sep) THEN SubSeq(s, 1, Find(s, sep) - 1) ELSE s

Whitespace == {" ", "\t", "\n", "\r"}

RECURSIVE LStrip(_)
LStrip(s) ==
    IF Len(s) > 0 /\ SubSeq(s, 1, 1) \in Whitespace
    THEN LStrip(SubSeq(s, 2, Len(s)))
    ELSE s

RECURSIVE RStrip(_)
RStrip(s) ==
    IF Len(s) > 0 /\ SubSeq(s, Len(s), Len(s)) \in Whitespace
    THEN RStrip(SubSeq(s, 1, Len(s) - 1))
    ELSE s

\* s.strip()
Strip(s) == RStrip(LStrip(s))

\* item.get(key, "")
Get(item, key) == IF key \in DOMAIN item THEN item[key] ELSE ""

-----------------------------------------------------------------------------
(* scripts/linkedin_search.py *)

API_LIMIT == 10
DEFAULT_NUM_RESULTS == 10
SEARCH_URL == "https://www.googleapis.com/customsearch/v1"

\* search_params with the keywords joined by "+" instead of " "
search_params_plus(kw, n) ==
    [method |-> "GET",
     url    |-> SEARCH_URL,
     q      |-> "site:linkedin.com/in " \o Join("+", kw),
     num    |-> Min(n, API_LIMIT)]

\* the params of the GET, built before the try block
search_params(kw, n) ==
    [method |-> "GET",
     url    |-> SEARCH_URL,
     q      |-> "site:linkedin.com/in " \o Join(" ", kw),
     num    |-> Min(n, API_LIMIT)]

\* profile_name with the two separators tried in the other order
profile_name_dash_first(title) ==
    IF Contains(title, " - ") THEN Strip(SplitFirst(title, " - "))
    ELSE IF Contains(title, " | ") THEN Strip(SplitFirst(title, " | "))
    ELSE Strip(title)

\* name extracted from the title of an item
profile_name(title) ==
    IF Contains(title, " | ") THEN Strip(SplitFirst(title, " | "))
    ELSE IF Contains(title, " - ") THEN Strip(SplitFirst(title, " - "))
    ELSE Strip(title)

\* profile with displayLink read from the item's link
profile_wrong_field(item, kw) ==
    [title            |-> Get(item, "title"),
     link             |-> Get(item, "link"),
     snippet          |-> Get(item, "snippet"),
     displayLink      |-> Get(item, "link"),
     formattedUrl     |-> Get(item, "formattedUrl"),
     name             |-> profile_name(Get(item, "title")),
     keywords_matched |-> kw]

\* the profile dictionary built from one item of results["items"]
profile(item, kw) ==
    [title            |-> Get(item, "title"),
     link             |-> Get(item, "link"),
     snippet          |-> Get(item, "snippet"),
     displayLink      |-> Get(item, "displayLink"),
     formattedUrl     |-> Get(item, "formattedUrl"),
     name             |-> profile_name(Get(item, "title")),
     keywords_matched |-> kw]

\* what an except clause yields: the diagnostic on sys.stderr and return []
caught(msg) == [ret |-> <<>>, stderr |-> <<msg>>, raised |-> ""]

\* the for loop over results["items"]
profiles_of(kw, items) == [i \in 1..Len(items) |-> profile(items[i], kw)]

\* search_linkedin_profiles_result without the try block: the exceptions of
\* requests.get, raise_for_status and response.json escape
search_linkedin_profiles_result_uncaught(kw, resp) ==
    IF resp.kind = "exception"
    THEN [ret |-> <<>>, stderr |-> <<>>, raised |-> resp.exc]
    ELSE IF resp.status >= 400
    THEN [ret |-> <<>>, stderr |-> <<>>, raised |-> "HTTPError"]
    ELSE IF resp.json_error # ""
    THEN [ret |-> <<>>, stderr |-> <<>>, raised |-> "JSONDecodeError"]
    ELSE IF "items" \notin DOMAIN resp.body
    THEN [ret |-> <<>>, stderr |-> <<>>, raised |-> ""]
    ELSE [ret |-> profiles_of(kw, resp.body.items), stderr |-> <<>>, raised |-> ""]

\* search_linkedin_profiles_result without the "items" test: results["items"]
\* raises KeyError, which the second except clause reports
search_linkedin_profiles_result_no_items_test(kw, resp) ==
    IF resp.kind = "exception" THEN caught("Error making request")
    ELSE IF resp.status >= 400 THEN caught("Error making request")
    ELSE IF resp.json_error = "RequestException" THEN caught("Error making request")
    ELSE IF resp.json_error # "" THEN caught("Unexpected error")
    ELSE IF "items" \notin DOMAIN resp.body THEN caught("Unexpected error")
    ELSE [ret |-> profiles_of(kw, resp.body.items), stderr |-> <<>>, raised |-> ""]

\* the try block and its two except clauses, given the outcome of
\* requests.get: the returned list, the lines written to sys.stderr, the
\* escaping exception
search_linkedin_profiles_result(kw, resp) ==
    IF resp.kind = "exception"
    THEN \* requests.get raised a RequestException (ConnectionError, Timeout)
         caught("Error making request")
    ELSE IF resp.status >= 400
    THEN \* raise_for_status raised HTTPError, a RequestException
         caught("Error making request")
    ELSE IF resp.json_error = "RequestException"
    THEN \* response.json raised requests.exceptions.JSONDecodeError
         caught("Error making request")
    ELSE IF resp.json_error # ""
    THEN \* response.json raised a plain ValueError
         caught("Unexpected error")
    ELSE IF "items" \notin DOMAIN resp.body
    THEN [ret |-> <<>>, stderr |-> <<>>, raised |-> ""]
    ELSE [ret |-> profiles_of(kw, resp.body.items), stderr |-> <<>>, raised |-> ""]

Categories == <<"skills", "industries", "companies", "certifications", "job_titles">>

CategorySet == {Categories[i] : i \in 1..Len(Categories)}

\* what one "if <group>:" block extends all_keywords with
group_keywords(g, c) == IF Truthy(g[c]) THEN g[c].value ELSE <<>>

\* what one "if <group>:" block appends to search_categories
group_summary(g, c, label) ==
    IF Truthy(g[c]) THEN <<label \o ": " \o Join(", ", g[c].value)>> ELSE <<>>

\* all_keywords with the companies block before the industries block
all_keywords_swapped(g) ==
    group_keywords(g, "skills") \o group_keywords(g, "companies")
      \o group_keywords(g, "industries") \o group_keywords(g, "certifications")
      \o group_keywords(g, "job_titles")

\* all_keywords after the five "if <group>:" blocks
all_keywords(g) ==
    group_keywords(g, "skills") \o group_keywords(g, "industries")
      \o group_keywords(g, "companies") \o group_keywords(g, "certifications")
      \o group_keywords(g, "job_titles")

\* search_categories after the five "if <group>:" blocks
search_categories(g) ==
    group_summary(g, "skills", "Skills")
      \o group_summary(g, "industries", "Industries")
      \o group_summary(g, "companies", "Companies")
      \o group_summary(g, "certifications", "Certifications")
      \o group_summary(g, "job_titles", "Job Titles")

\* no_keywords_result without the error message
no_keywords_result_no_error ==
    [profiles      |-> <<>>,
     search_query  |-> "",
     categories    |-> <<>>,
     total_results |-> 0,
     error         |-> None]

\* the dictionary returned when all_keywords is empty
no_keywords_result ==
    [profiles      |-> <<>>,
     search_query  |-> "",
     categories    |-> <<>>,
     total_results |-> 0,
     error         |-> Some("No search keywords provided")]

\* search_by_categories_result reporting an empty result as an error
search_by_categories_result_error(g, profiles) ==
    [profiles      |-> profiles,
     search_query  |-> Join(" ", all_keywords(g)),
     categories    |-> search_categories(g),
     total_results |-> Len(profiles),
     error         |-> IF profiles = <<>> THEN Some("No results") ELSE None]

\* the dictionary returned after the delegated search
search_by_categories_result(g, profiles) ==
    [profiles      |-> profiles,
     search_query  |-> Join(" ", all_keywords(g)),
     categories    |-> search_categories(g),
     total_results |-> Len(profiles),
     error         |-> None]

\* the two usage lines main prints when sys.argv holds no keyword
main_usage ==
    <<"Usage: python linkedin_search.py <keywords...>",
      "Example: python linkedin_search.py 'software engineer' 'python' 'machine learning'">>

\* main_result counting the keywords instead of the profiles
main_result_wrong_count(kw, profiles) ==
    [profiles      |-> profiles,
     search_query  |-> Join(" ", kw),
     total_results |-> Len(kw)]

\* the result dictionary main serialises
main_result(kw, profiles) ==
    [profiles      |-> profiles,
     search_query  |-> Join(" ", kw),
     total_results |-> Len(profiles)]

-----------------------------------------------------------------------------
(* temp/pylink.py *)

\* the params of the GET
pylink_params(q, n) ==
    [method |-> "GET",
     url    |-> SEARCH_URL,
     q      |-> "site:linkedin.com/in " \o q,
     num    |-> n]

RECURSIVE pylink_print_items(_)
\* the for loop over results["items"]: the lines printed, and the KeyError
\* raised by item["title"] or item["link"] on the first item lacking it
pylink_print_items(items) ==
    IF items = <<>> THEN [stdout |-> <<>>, raised |-> ""]
    ELSE IF "title" \notin DOMAIN Head(items)
    THEN [stdout |-> <<>>, raised |-> "KeyError"]
    ELSE IF "link" \notin DOMAIN Head(items)
    THEN [stdout |-> <<Head(items).title>>, raised |-> "KeyError"]
    ELSE LET rest == pylink_print_items(Tail(items))
         IN  [stdout |-> <<Head(items).title, Head(items).link, "---">> \o rest.stdout,
              raised |-> rest.raised]

\* the body of the function after requests.get, given its outcome: whether it
\* returned and what (returns = "list" for [], "None" for falling off the end),
\* the lines printed, the lines written to sys.stderr, the escaping exception
pylink_result(resp) ==
    IF resp.kind = "exception"
    THEN [returns |-> "", stdout |-> <<>>, stderr |-> <<>>, raised |-> resp.exc]
    ELSE IF resp.json_error # ""
    THEN [returns |-> "", stdout |-> <<>>, stderr |-> <<>>, raised |-> "JSONDecodeError"]
    ELSE IF "items" \notin DOMAIN resp.body
    THEN [returns |-> "list", stdout |-> <<"No results or error:">>,
          stderr |-> <<>>, raised |-> ""]
    ELSE LET loop == pylink_print_items(resp.body.items)
         IN  [returns |-> IF loop.raised = "" THEN "None" ELSE "",
              stdout  |-> loop.stdout,
              stderr  |-> <<>>,
              raised  |-> loop.raised]

-----------------------------------------------------------------------------
(* Inputs of the calls and outcomes of the GET *)

\* the lists of at most n elements of S
ListsUpTo(S, n) == UNION {[1..k -> S] : k \in 0..n}

RECURSIVE StringsUpTo(_, _)
\* the strings of at most n characters of S
StringsUpTo(S, n) ==
    IF n = 0 THEN {""}
    ELSE LET shorter == StringsUpTo(S, n - 1)
         IN  shorter \cup {s \o c : s \in shorter, c \in S}

KeywordLists == ListsUpTo(Words, MaxKeywords)

OptionalLists == {None} \cup {Some(l) : l \in KeywordLists}

GroupLen(x) == IF x.is_none THEN 0 ELSE Len(x.value)

\* the category arguments: each omitted (None), empty or a list of words,
\* at most MaxKeywords words over the five of them
GroupArgs ==
    {g \in [CategorySet -> OptionalLists] :
        GroupLen(g["skills"]) + GroupLen(g["industries"]) + GroupLen(g["companies"])
          + GroupLen(g["certifications"]) + GroupLen(g["job_titles"]) <= MaxKeywords}

\* items of a Custom Search response: every field is optional
ItemPool ==
    {[title        |-> "Jane Doe | Acme",
      link         |-> "https://linkedin.com/in/jane",
      snippet      |-> "Engineer",
      displayLink  |-> "linkedin.com",
      formattedUrl |-> "linkedin.com/in/jane"],
     [link         |-> "https://linkedin.com/in/bob",
      snippet      |-> "CTO"]}

ConnectionFailure == [kind |-> "exception", exc |-> "ConnectionError"]

HttpResponse(status, json_error, body) ==
    [kind |-> "response", status |-> status, json_error |-> json_error, body |-> body]

\* the bodies of a response whose JSON decodes: an error object, a result
\* object without items, a result object with items
ErrorBody == [error |-> "forbidden"]
EmptyBody == [kind |-> "customsearch#search"]
ItemsBody(items) == [kind |-> "customsearch#search", items |-> items]

Responses ==
    {ConnectionFailure,
     HttpResponse(403, "", ErrorBody),
     HttpResponse(200, "RequestException", EmptyBody),
     HttpResponse(200, "ValueError", EmptyBody),
     HttpResponse(200, "", EmptyBody)}
    \cup {HttpResponse(200, "", ItemsBody(items)) : items \in ListsUpTo(ItemPool, MaxItems)}

\* responses with one item whose title is any string of at most MaxTitleLen
\* characters
TitleResponses ==
    {HttpResponse(200, "", ItemsBody(<<[title |-> t]>>)) :
        t \in StringsUpTo(TitleChars, MaxTitleLen)}

-----------------------------------------------------------------------------
(* Values of ret and of the output streams *)

Unset == [kind |-> "unset"]
RetNone == [kind |-> "None"]
RetList(l) == [kind |-> "list", value |-> l]
RetDict(d) == [kind |-> "dict", value |-> d]

Text(s) == [kind |-> "text", text |-> s]
JsonDoc(d) == [kind |-> "json", value |-> d]
Texts(lines) == [i \in 1..Len(lines) |-> Text(lines[i])]

-----------------------------------------------------------------------------
(* Actions *)

Init ==
    /\ pc = "idle"
    /\ entry = "none"
    /\ keywords = <<>>
    /\ num_results = DEFAULT_NUM_RESULTS
    /\ groups = [c \in CategorySet |-> None]
    /\ query = ""
    /\ requests = <<>>
    /\ response = [kind |-> "none"]
    /\ stdout = <<>>
    /\ stderr = <<>>
    /\ ret = Unset
    /\ raised = ""
    /\ exit_status = 0

\* search_linkedin_profiles(kw, n) of scripts/linkedin_search.py called
\* directly, up to the blocking requests.get
search_linkedin_profiles_call ==
    /\ pc = "idle"
    /\ \E kw \in KeywordLists, n \in NumChoices :
          /\ entry' = "search"
          /\ keywords' = kw
          /\ num_results' = n
          /\ requests' = Append(requests, search_params(kw, n))
    /\ pc' = "http"
    /\ UNCHANGED <<groups, query, response, stdout, stderr, ret, raised, exit_status>>

\* search_by_categories(**g, num_results=n): returns at once when no keyword
\* was given, otherwise enters search_linkedin_profiles
search_by_categories_call ==
    /\ pc = "idle"
    /\ \E g \in GroupArgs, n \in NumChoices :
          /\ entry' = "search_by_categories"
          /\ groups' = g
          /\ num_results' = n
          /\ IF all_keywords(g) = <<>>
             THEN /\ ret' = RetDict(no_keywords_result)
                  /\ pc' = "done"
                  /\ UNCHANGED <<keywords, requests>>
             ELSE /\ keywords' = all_keywords(g)
                  /\ requests' = Append(requests, search_params(all_keywords(g), n))
                  /\ pc' = "http"
                  /\ UNCHANGED ret
    /\ UNCHANGED <<query, response, stdout, stderr, raised, exit_status>>

\* main() with sys.argv = [program] + args
main_call ==
    /\ pc = "idle"
    /\ \E args \in KeywordLists :
          LET argv == <<"linkedin_search.py">> \o args
          IN  /\ entry' = "main"
              /\ IF Len(argv) < 2
                 THEN /\ stdout' = stdout \o Texts(main_usage)
                      /\ exit_status' = 1
                      /\ pc' = "done"
                      /\ UNCHANGED <<keywords, requests>>
                 ELSE /\ keywords' = Tail(argv)
                      /\ requests' = Append(requests,
                                            search_params(Tail(argv), DEFAULT_NUM_RESULTS))
                      /\ pc' = "http"
                      /\ UNCHANGED <<stdout, exit_status>>
    /\ UNCHANGED <<num_results, groups, query, response, stderr, ret, raised>>

\* search_linkedin_profiles(q, n) of temp/pylink.py, up to requests.get
pylink_call ==
    /\ pc = "idle"
    /\ \E kw \in KeywordLists, n \in NumChoices :
          /\ entry' = "pylink"
          /\ query' = Join(" ", kw)
          /\ num_results' = n
          /\ requests' = Append(requests, pylink_params(Join(" ", kw), n))
    /\ pc' = "http"
    /\ UNCHANGED <<keywords, groups, response, stdout, stderr, ret, raised, exit_status>>

\* requests.get returns or raises, and the entry point runs to its end
receive(resp) ==
    /\ response' = resp
    /\ pc' = "done"
    /\ IF entry = "pylink"
       THEN LET r == pylink_result(resp)
            IN  /\ stdout' = stdout \o Texts(r.stdout)
                /\ stderr' = stderr \o r.stderr
                /\ raised' = r.raised
                /\ ret' = IF r.returns = "list" THEN RetList(<<>>)
                          ELSE IF r.returns = "None" THEN RetNone
                          ELSE Unset
       ELSE LET r == search_linkedin_profiles_result(keywords, resp)
            IN  /\ stderr' = stderr \o r.stderr
                /\ raised' = r.raised
                /\ IF r.raised # ""
                   THEN UNCHANGED <<stdout, ret>>
                   ELSE IF entry = "search"
                   THEN /\ ret' = RetList(r.ret)
                        /\ UNCHANGED stdout
                   ELSE IF entry = "search_by_categories"
                   THEN /\ ret' = RetDict(search_by_categories_result(groups, r.ret))
                        /\ UNCHANGED stdout
                   ELSE /\ stdout' = Append(stdout, JsonDoc(main_result(keywords, r.ret)))
                        /\ ret' = RetNone
    /\ UNCHANGED <<entry, keywords, num_results, groups, query, requests, exit_status>>

receive_response ==
    /\ pc = "http"
    /\ \E resp \in Responses : receive(resp)

receive_title_response ==
    /\ pc = "http"
    /\ \E resp \in TitleResponses : receive(resp)

Next ==
    \/ search_linkedin_profiles_call
    \/ search_by_categories_call
    \/ main_call
    \/ pylink_call
    \/ receive_response

Spec == Init /\ [][Next]_vars

\* the direct search call answered by a response with one item of any title
NextTitles ==
    \/ search_linkedin_profiles_call
    \/ receive_title_response

SpecTitles == Init /\ [][NextTitles]_vars

-----------------------------------------------------------------------------
(* Properties *)

Done(e) == pc = "done" /\ entry = e

\* the GET failed in transport or came back with a non-success status
RequestFailed ==
    \/ response.kind = "exception"
    \/ (response.kind = "response" /\ response.status >= 400)

\* the GET succeeded and its body decoded to a JSON object
Decoded ==
    /\ response.kind = "response"
    /\ response.status < 400
    /\ response.json_error = ""

FILTER == "site:linkedin.com/in "

\* C1: search_linkedin_profiles never raises to its caller, and when the GET
\* is a transport failure or has a non-success status it writes a diagnostic
\* to the error stream and returns the empty list.
C1_SearchNeverRaises ==
    Done("search") =>
        /\ raised = ""
        /\ ret.kind = "list"
        /\ RequestFailed => (ret = RetList(<<>>) /\ Len(stderr) = 1)

C1_Witness ==
    /\ Done("search")
    /\ response = ConnectionFailure
    /\ keywords = <<"python", "Acme">>
    /\ ret = RetList(<<>>)
    /\ stderr = <<"Error making request">>
    /\ raised = ""

AllGroupsEmpty == \A c \in CategorySet : groups[c].is_none \/ groups[c].value = <<>>

\* C2: search_by_categories with every category empty or omitted issues no
\* request and returns profiles = [], search_query = "", categories = [],
\* total_results = 0, error = "No search keywords provided".
C2_NoKeywordsNoRequest ==
    (entry = "search_by_categories" /\ AllGroupsEmpty) =>
        /\ pc = "done"
        /\ requests = <<>>
        /\ response.kind = "none"
        /\ ret = RetDict([profiles      |-> <<>>,
                          search_query  |-> "",
                          categories    |-> <<>>,
                          total_results |-> 0,
                          error         |-> Some("No search keywords provided")])

C2_Witness ==
    /\ Done("search_by_categories")
    /\ groups["skills"] = Some(<<>>)
    /\ groups["companies"] = None
    /\ AllGroupsEmpty
    /\ requests = <<>>
    /\ ret.value.error = Some("No search keywords provided")

\* C3: for a non-empty keyword list, one call of search performs exactly one
\* GET whatever its outcome, with q = "site:linkedin.com/in " followed by the
\* keywords joined with single spaces.
C3_ExactlyOneRequest ==
    (entry \in {"search", "search_by_categories", "main"} /\ keywords # <<>>) =>
        /\ Len(requests) = 1
        /\ requests[1].method = "GET"
        /\ requests[1].url = "https://www.googleapis.com/customsearch/v1"
        /\ requests[1].q = FILTER \o Join(" ", keywords)

C3_Witness ==
    /\ Done("search")
    /\ keywords = <<"python", "Acme">>
    /\ response = ConnectionFailure
    /\ Len(requests) = 1
    /\ requests[1].q = "site:linkedin.com/in python Acme"

\* C4: in every request issued by the search of either script, num is
\* min(maxResults, 10), so no request carries num > 10.
C4_NumClamped ==
    \A i \in 1..Len(requests) :
        /\ requests[i].num = Min(num_results, 10)
        /\ requests[i].num <= 10

\* C5: when the GET succeeds and the decoded body has no items field, the
\* search function of either script returns the empty list, raises nothing
\* and writes nothing to the error stream.
C5_MissingItemsIsNoError ==
    (pc = "done" /\ entry \in {"search", "pylink"} /\ Decoded
       /\ "items" \notin DOMAIN response.body) =>
        /\ ret = RetList(<<>>)
        /\ raised = ""
        /\ stderr = <<>>

C5_Witness ==
    /\ Done("search")
    /\ response = HttpResponse(200, "", EmptyBody)
    /\ ret = RetList(<<>>)
    /\ stderr = <<>>

\* the positions at which sep occurs in t
Occurrences(t, sep) ==
    {i \in 1..(Len(t) - Len(sep) + 1) : SubSeq(t, i, i + Len(sep) - 1) = sep}

\* the substring of t before the first occurrence of sep
Before(t, sep) ==
    LET first == CHOOSE i \in Occurrences(t, sep) : \A j \in Occurrences(t, sep) : i <= j
    IN  SubSeq(t, 1, first - 1)

\* t without its leading and trailing whitespace
Trimmed(t) ==
    LET inked == {i \in 1..Len(t) : SubSeq(t, i, i) \notin Whitespace}
    IN  IF inked = {} THEN ""
        ELSE SubSeq(t, CHOOSE i \in inked : \A j \in inked : i <= j,
                       CHOOSE i \in inked : \A j \in inked : i >= j)

\* the search returned one record for a response with one item
OneRecord ==
    /\ Done("search")
    /\ Decoded
    /\ "items" \in DOMAIN response.body
    /\ Len(response.body.items) = 1
    /\ ret.kind = "list"
    /\ Len(ret.value) = 1

\* C6 as stated: the name is the substring of the title before the first
\* " | " if the title contains " | ", otherwise the substring before the first
\* " - " if it contains " - ", otherwise the whole trimmed title.
C6_NameIsUntrimmedPrefix ==
    OneRecord =>
        LET t == Get(response.body.items[1], "title")
        IN  ret.value[1].name =
                IF Occurrences(t, " | ") # {} THEN Before(t, " | ")
                ELSE IF Occurrences(t, " - ") # {} THEN Before(t, " - ")
                ELSE Trimmed(t)

\* C6 amended: the name is the whitespace-trimmed substring of the title
\* before the first " | " if the title contains " | ", otherwise the trimmed
\* substring before the first " - " if it contains " - ", otherwise the whole
\* trimmed title; " | " takes priority even when " - " occurs earlier.
C6_NameIsTrimmedPrefix ==
    OneRecord =>
        LET t == Get(response.body.items[1], "title")
        IN  ret.value[1].name =
                IF Occurrences(t, " | ") # {} THEN Trimmed(Before(t, " | "))
                ELSE IF Occurrences(t, " - ") # {} THEN Trimmed(Before(t, " - "))
                ELSE Trimmed(t)

C6_Witness ==
    /\ OneRecord
    /\ response.body.items[1] = [title |-> " - | "]
    /\ ret.value[1].name = "-"

Label(c) ==
    CASE c = "skills" -> "Skills"
      [] c = "industries" -> "Industries"
      [] c = "companies" -> "Companies"
      [] c = "certifications" -> "Certifications"
      [] c = "job_titles" -> "Job Titles"

Supplied(c) == (~groups[c].is_none) /\ groups[c].value # <<>>

RECURSIVE FlatFrom(_)
\* the values of the supplied groups from the i-th category on, in the fixed
\* category order
FlatFrom(i) ==
    IF i > Len(Categories) THEN <<>>
    ELSE (IF Supplied(Categories[i]) THEN groups[Categories[i]].value ELSE <<>>)
           \o FlatFrom(i + 1)

RECURSIVE SummariesFrom(_)
\* one "<Category>: <values joined by ', '>" per supplied group from the i-th
\* category on
SummariesFrom(i) ==
    IF i > Len(Categories) THEN <<>>
    ELSE (IF Supplied(Categories[i])
          THEN <<Label(Categories[i]) \o ": " \o Join(", ", groups[Categories[i]].value)>>
          ELSE <<>>)
           \o SummariesFrom(i + 1)

\* C7: search_by_categories flattens the supplied non-empty groups in the
\* order skills, industries, companies, certifications, job titles:
\* search_query is the space-join of that sequence, the keywords passed to
\* search are that sequence, and categories holds one
\* "<Category>: <comma-joined values>" per supplied group in the same order.
C7_FixedCategoryOrder ==
    /\ (entry = "search_by_categories" /\ pc = "http") =>
          /\ keywords = FlatFrom(1)
          /\ requests = <<[method |-> "GET",
                           url    |-> "https://www.googleapis.com/customsearch/v1",
                           q      |-> FILTER \o Join(" ", FlatFrom(1)),
                           num    |-> Min(num_results, 10)]>>
    /\ Done("search_by_categories") =>
          /\ ret.kind = "dict"
          /\ ret.value.search_query = Join(" ", FlatFrom(1))
          /\ ret.value.categories = SummariesFrom(1)
          /\ keywords = FlatFrom(1)

C7_Witness ==
    /\ Done("search_by_categories")
    /\ groups = [c \in CategorySet |->
                    IF c = "skills" THEN Some(<<"python">>)
                    ELSE IF c = "companies" THEN Some(<<"Acme">>)
                    ELSE None]
    /\ response = HttpResponse(200, "", EmptyBody)
    /\ ret.value.search_query = "python Acme"
    /\ ret.value.categories = <<"Skills: python", "Companies: Acme">>

\* the envelope of a search with zero results
ZeroResults ==
    [profiles      |-> <<>>,
     search_query  |-> Join(" ", FlatFrom(1)),
     categories    |-> SummariesFrom(1),
     total_results |-> 0,
     error         |-> None]

\* C8: every envelope returned by search_by_categories has total_results =
\* length of profiles; its error is absent (None) whenever a keyword was
\* given; a transport failure or non-success status yields profiles = [],
\* total_results = 0 and error absent, the envelope of a search with zero
\* results.
C8_EnvelopeInvariant ==
    Done("search_by_categories") =>
        /\ ret.kind = "dict"
        /\ raised = ""
        /\ ret.value.total_results = Len(ret.value.profiles)
        /\ FlatFrom(1) # <<>> => ret.value.error = None
        /\ RequestFailed => ret.value = ZeroResults
        /\ (Decoded /\ "items" \notin DOMAIN response.body) => ret.value = ZeroResults

C8_Witness ==
    /\ Done("search_by_categories")
    /\ response = HttpResponse(403, "", ErrorBody)
    /\ groups["job_titles"] = Some(<<"python", "Acme">>)
    /\ ret.value.profiles = <<>>
    /\ ret.value.total_results = 0
    /\ ret.value.error = None

\* C9: main without keyword arguments prints the usage text and exits with
\* status 1, issuing no request and printing no JSON envelope; with at least
\* one keyword it calls search once with the raw arguments and the default
\* maxResults and prints one envelope with profiles, search_query (the
\* arguments joined by spaces) and total_results = length of profiles, also
\* when the search failed.
C9_MainContract ==
    Done("main") =>
        IF keywords = <<>>
        THEN /\ requests = <<>>
             /\ exit_status = 1
             /\ Len(stdout) = 2
             /\ stdout[1] = Text("Usage: python linkedin_search.py <keywords...>")
             /\ \A i \in 1..Len(stdout) : stdout[i].kind = "text"
        ELSE /\ requests = <<[method |-> "GET",
                              url    |-> "https://www.googleapis.com/customsearch/v1",
                              q      |-> FILTER \o Join(" ", keywords),
                              num    |-> 10]>>
             /\ raised = ""
             /\ exit_status = 0
             /\ Len(stdout) = 1
             /\ stdout[1].kind = "json"
             /\ DOMAIN stdout[1].value = {"profiles", "search_query", "total_results"}
             /\ stdout[1].value.search_query = Join(" ", keywords)
             /\ stdout[1].value.total_results = Len(stdout[1].value.profiles)
             /\ (RequestFailed \/ (Decoded /\ "items" \notin DOMAIN response.body))
                   => stdout[1].value.profiles = <<>>
             /\ (Decoded /\ "items" \in DOMAIN response.body)
                   => Len(stdout[1].value.profiles) = Len(response.body.items)

C9_Witness ==
    /\ Done("main")
    /\ keywords = <<"python", "Acme">>
    /\ response = ConnectionFailure
    /\ stdout = <<JsonDoc([profiles |-> <<>>, search_query |-> "python Acme",
                           total_results |-> 0])>>

ItemFields == {"title", "link", "snippet", "displayLink", "formattedUrl"}

\* C10: when the GET succeeds and the response has an items field, search
\* returns one record per item in the order of the items; each of title,
\* link, snippet, displayLink and formattedUrl is the item's value, or ""
\* when the item lacks the field, and keywords_matched is the keyword list
\* passed to search.
C10_OneRecordPerItem ==
    (Done("search") /\ Decoded /\ "items" \in DOMAIN response.body) =>
        /\ ret.kind = "list"
        /\ Len(ret.value) = Len(response.body.items)
        /\ \A i \in 1..Len(response.body.items) :
              /\ \A f \in ItemFields :
                    ret.value[i][f] =
                        IF f \in DOMAIN response.body.items[i]
                        THEN response.body.items[i][f]
                        ELSE ""
              /\ ret.value[i].keywords_matched = keywords

C10_Witness ==
    /\ Done("search")
    /\ keywords = <<"python", "Acme">>
    /\ Decoded
    /\ "items" \in DOMAIN response.body
    /\ Len(response.body.items) = 2
    /\ "title" \notin DOMAIN response.body.items[1]
    /\ "title" \in DOMAIN response.body.items[2]
    /\ ret.value[1].title = ""
    /\ ret.value[1].snippet = "CTO"
    /\ ret.value[2].title = "Jane Doe | Acme"
    /\ ret.value[2].displayLink = "linkedin.com"

====
